---- MODULE Spec2Model ----
(***************************************************************************)
(* Model of the usc-signal-bot "book" command: the booking allocator       *)
(* (BookTimeslotCommand._allocate_bookings), the slot pre-fetch            *)
(* (USCClient.get_slots_for_booking) and the concurrent per-group booking  *)
(* tasks (BookTimeslotCommand._make_booking gathered by handle).           *)
(***************************************************************************)
EXTENDS Integers, Sequences, FiniteSets, TLC

(***************************************************************************)
(* Bounds of the model                                                     *)
(***************************************************************************)
MaxPlayers == 5
MaxCourts == 3

(***************************************************************************)
(* Value universe                                                          *)
(***************************************************************************)
CredNames == {"john", "sarah", "mike"}
OtherNames == {"alice", "bob"}
Emails == CredNames \cup OtherNames

\* config.py BookingMember: username and password
BookingMember(u) == [username |-> u, password |-> <<"pass", u>>]

Range(s) == {s[i] : i \in 1..Len(s)}

IsDistinct(s) == \A i, k \in 1..Len(s) : i # k => s[i] # s[k]

SeqsUpTo(S, n) == UNION {[1..m -> S] : m \in 0..n}

\* the credential lists of the configuration: usernames unique, any order
CredLists == {s \in SeqsUpTo(CredNames, Cardinality(CredNames)) : IsDistinct(s)}

PlayerLists == SeqsUpTo(Emails, MaxPlayers)

CourtCounts == (0 - 1)..MaxCourts

(***************************************************************************)
(* Python helpers                                                          *)
(***************************************************************************)
\* math.ceil(a / b) for a >= 0, b > 0
Ceil(a, b) == (a + b - 1) \div b

Max(a, b) == IF a >= b THEN a ELSE b

\* index of the first occurrence of x in s, 0 when absent
RECURSIVE IndexFrom(_, _, _)
IndexFrom(s, x, i) ==
    IF i > Len(s) THEN 0
    ELSE IF s[i] = x THEN i
    ELSE IndexFrom(s, x, i + 1)

\* list.remove(x): drops the first occurrence (the caller checks presence)
ListRemove(s, x) ==
    LET k == IndexFrom(s, x, 1)
    IN  SubSeq(s, 1, k - 1) \o SubSeq(s, k + 1, Len(s))

(***************************************************************************)
(* BookTimeslotCommand._allocate_bookings                                  *)
(***************************************************************************)
\* [m for m in self.usc_creds.bookingMembers if m.username in players],
\* faulty variant: every requested player is taken to hold credentials
authenticated_players_any(players, bookingMembers) ==
    [i \in 1..Len(players) |-> BookingMember(players[i])]

\* faulty variant: the credentialed players in the order of the request
authenticated_players_by_request(players, bookingMembers) ==
    LET named == SelectSeq(players, LAMBDA p :
                     \E i \in 1..Len(bookingMembers) :
                         bookingMembers[i].username = p)
    IN  [i \in 1..Len(named) |->
            CHOOSE m \in Range(bookingMembers) : m.username = named[i]]

authenticated_players(players, bookingMembers) ==
    SelectSeq(bookingMembers, LAMBDA m : m.username \in Range(players))

\* math.ceil(amount_of_players / 4), faulty variant with round down
amount_of_bookings_required_floor(players) == Len(players) \div 4

\* faulty variant with five players per court
amount_of_bookings_required_five(players) == Ceil(Len(players), 5)

amount_of_bookings_required(players) == Ceil(Len(players), 4)

\* max(amount_of_bookings_required, courts), faulty variant with the minimum needed
amount_of_bookings_to_make_min(players, courts) ==
    amount_of_bookings_required(players)

amount_of_bookings_to_make(players, courts) ==
    Max(amount_of_bookings_required(players), courts)

\* [m.username for m in authenticated_players][:amount_of_bookings_to_make]
players_to_book(auth, to_make) ==
    LET names == [i \in 1..Len(auth) |-> auth[i].username]
    IN  SubSeq(names, 1, IF to_make < Len(names) THEN to_make ELSE Len(names))

\* the guard of the insufficient-leaders error, faulty variant with <=
not_enough_authenticated_le(amount_auth, to_make) == amount_auth <= to_make

not_enough_authenticated(amount_auth, to_make) == amount_auth < to_make

CourtsError(courts, required, n) ==
    [kind |-> "RuntimeError",
     msg |-> <<"Requested", courts, "courts, but at least", required,
               "are needed for", n, "players">>]

LeadersError(to_make) ==
    [kind |-> "RuntimeError",
     msg |-> <<"Not enough authenticated booking members available to book",
               to_make, "squash courts">>]

Raised(k) == [kind |-> k, msg |-> <<k>>]

\* the while loop of one group, faulty variant: the chosen player stays in the pool
RECURSIVE fill_group_keep(_, _, _, _, _)
fill_group_keep(remaining, group, j, reserved, per_court) ==
    IF Len(remaining) > 0 /\ Len(group) < per_court - 1
    THEN IF j + 1 > Len(remaining)
         THEN [kind |-> "IndexError", remaining |-> remaining, group |-> group]
         ELSE LET next_player == remaining[j + 1]
              IN  IF next_player \notin Range(reserved)
                  THEN fill_group_keep(remaining, Append(group, next_player),
                                       j, reserved, per_court)
                  ELSE fill_group_keep(remaining, group, j + 1,
                                       reserved, per_court)
    ELSE [kind |-> "ok", remaining |-> remaining, group |-> group]

\* the while loop of one group, faulty variant: the leader is not counted
\* in players_per_court
RECURSIVE fill_group_full(_, _, _, _, _)
fill_group_full(remaining, group, j, reserved, per_court) ==
    IF Len(remaining) > 0 /\ Len(group) < per_court
    THEN IF j + 1 > Len(remaining)
         THEN [kind |-> "IndexError", remaining |-> remaining, group |-> group]
         ELSE LET next_player == remaining[j + 1]
              IN  IF next_player \notin Range(reserved)
                  THEN fill_group_full(ListRemove(remaining, next_player),
                                       Append(group, next_player),
                                       j, reserved, per_court)
                  ELSE fill_group_full(remaining, group, j + 1,
                                       reserved, per_court)
    ELSE [kind |-> "ok", remaining |-> remaining, group |-> group]

\* the while loop of one group: j is the 0-based scan index
RECURSIVE fill_group(_, _, _, _, _)
fill_group(remaining, group, j, reserved, per_court) ==
    IF Len(remaining) > 0 /\ Len(group) < per_court - 1
    THEN IF j + 1 > Len(remaining)
         THEN [kind |-> "IndexError", remaining |-> remaining, group |-> group]
         ELSE LET next_player == remaining[j + 1]
              IN  IF next_player \notin Range(reserved)
                  THEN fill_group(ListRemove(remaining, next_player),
                                  Append(group, next_player),
                                  j, reserved, per_court)
                  ELSE fill_group(remaining, group, j + 1,
                                  reserved, per_court)
    ELSE [kind |-> "ok", remaining |-> remaining, group |-> group]

\* math.ceil(amount_of_players / courts), faulty variant with round down
players_per_court_floor(amount_of_players, courts) ==
    amount_of_players \div courts

players_per_court(amount_of_players, courts) == Ceil(amount_of_players, courts)

\* for i in range(amount_of_bookings_to_make): i is 0-based
RECURSIVE allocation_loop(_, _, _, _, _, _, _)
allocation_loop(i, to_make, auth, remaining, allocations, reserved, per_court) ==
    IF i >= to_make
    THEN [kind |-> "ok", allocations |-> allocations]
    ELSE LET booking_member == auth[i + 1]
         IN  IF booking_member.username \notin Range(remaining)
             THEN Raised("ValueError")
             ELSE LET filled == fill_group(
                                    ListRemove(remaining, booking_member.username),
                                    <<>>, 0, reserved, per_court)
                  IN  IF filled.kind # "ok"
                      THEN Raised(filled.kind)
                      ELSE allocation_loop(
                               i + 1, to_make, auth, filled.remaining,
                               Append(allocations,
                                      [leader |-> booking_member,
                                       members |-> filled.group]),
                               reserved, per_court)

allocate_bookings(players, courts, bookingMembers) ==
    LET amount_of_players == Len(players)
        auth == authenticated_players(players, bookingMembers)
        required == amount_of_bookings_required(players)
        to_make == amount_of_bookings_to_make(players, courts)
        reserved == players_to_book(auth, to_make)
    IN  IF courts < required
        THEN CourtsError(courts, required, amount_of_players)
        ELSE IF not_enough_authenticated(Len(auth), to_make)
        THEN LeadersError(to_make)
        ELSE IF courts = 0
        THEN Raised("ZeroDivisionError")
        ELSE allocation_loop(0, to_make, auth, players, <<>>, reserved,
                             players_per_court(amount_of_players, courts))

(***************************************************************************)
(* resolve_alias                                                           *)
(***************************************************************************)
\* str.lower() on the tokens and alias keys of the model
Lower(t) ==
    IF t \in {"Johnny", "JOHNNY"} THEN "johnny"
    ELSE IF t = "Alice" THEN "alice"
    ELSE t

\* {k.lower(): v for k, v in aliases.items()}.get(lowered, default): a
\* later key with the same lower-case form overrides an earlier one
RECURSIVE aliases_lower_get(_, _, _)
aliases_lower_get(aliases, lowered, default) ==
    IF aliases = <<>> THEN default
    ELSE LET last == aliases[Len(aliases)]
         IN  IF Lower(last[1]) = lowered THEN last[2]
             ELSE aliases_lower_get(SubSeq(aliases, 1, Len(aliases) - 1),
                                    lowered, default)

\* resolve_alias, faulty variant: the default is the lowered token
resolve_alias_lowered(email_or_alias, aliases) ==
    aliases_lower_get(aliases, Lower(email_or_alias), Lower(email_or_alias))

resolve_alias(email_or_alias, aliases) ==
    aliases_lower_get(aliases, Lower(email_or_alias), email_or_alias)

(***************************************************************************)
(* USCClient: slots                                                        *)
(***************************************************************************)
\* minutes between UTC and Europe/Amsterdam (standard time)
AmsterdamOffset == 60

\* FROM_TIME and UNTIL_TIME as minutes of the day
FROM_TIME == 1050
UNTIL_TIME == 1140

\* offset_slot_date: the API's UTC start as Amsterdam local time
offset_slot_date(utc) == utc + AmsterdamOffset

\* format_slots, faulty variant: slots that are not available are kept
format_slots_at_any(slots, key) ==
    SelectSeq(slots, LAMBDA sl :
        /\ ~ (offset_slot_date(sl.startDate) < FROM_TIME
              \/ offset_slot_date(sl.startDate) > UNTIL_TIME)
        /\ offset_slot_date(sl.startDate) = key)

\* format_slots followed by the lookup of one key: the available slots
\* inside the time window that start at local time key, in API order
format_slots_at(slots, key) ==
    SelectSeq(slots, LAMBDA sl :
        /\ sl.isAvailable
        /\ ~ (offset_slot_date(sl.startDate) < FROM_TIME
              \/ offset_slot_date(sl.startDate) > UNTIL_TIME)
        /\ offset_slot_date(sl.startDate) = key)

RuntimeError(m) == [kind |-> "RuntimeError", msg |-> m]

\* get_slots_for_booking after get_slots has answered, faulty variant: the count
\* of the available slots is not checked
get_slots_for_booking_unchecked(slots, date, num_slots) ==
    LET available_slots == format_slots_at(slots, date)
    IN  IF available_slots = <<>>
        THEN RuntimeError(<<"No slots available for", date>>)
        ELSE [kind |-> "ok",
              slots |-> SubSeq(available_slots, 1,
                               IF num_slots < Len(available_slots)
                               THEN num_slots ELSE Len(available_slots))]

get_slots_for_booking(slots, date, num_slots) ==
    LET available_slots == format_slots_at(slots, date)
    IN  IF available_slots = <<>>
        THEN RuntimeError(<<"No slots available for", date>>)
        ELSE IF Len(available_slots) < num_slots
        THEN RuntimeError(<<"Not enough slots available. Need", num_slots,
                            "slots but only found", Len(available_slots)>>)
        ELSE [kind |-> "ok", slots |-> SubSeq(available_slots, 1, num_slots)]

(***************************************************************************)
(* State                                                                   *)
(***************************************************************************)
VARIABLES
    a_players, a_courts, a_creds, a_pc, a_result,   \* allocator call
    h_pc,          \* position of BookTimeslotCommand.handle
    h_dry_run,     \* args.dry_run
    h_date,        \* the parsed date: local minutes of the day
    h_allocations, \* allocations, then booking_allocations (with slots)
    h_exc,         \* exception in flight through the finally of the pre-fetch
    h_shortage,    \* the pre-fetch found too few slots at the requested time
    clients,       \* USCClient per owner: 0 the pre-fetch, g the g-th task
    t_pc,          \* position of each _make_booking task
    t_result,      \* what each task returned or raised
    t_error,       \* the exception caught inside each task
    book_calls,    \* book_slot requests sent per task
    sent,          \* messages sent to the chat
    h_help,        \* where the arguments of the message hold --help or -h
    h_request,     \* court count and resolved members of the parsed command
    alloc_call,    \* the arguments _allocate_bookings was called with
    t_finished,    \* the tasks in the order they finished
    t_failed_at,   \* per task, the call of _make_booking that raised
    c_method,      \* the USCClient method that is called
    c_auth,        \* self.auth of the client is set
    c_script,      \* what the facility answers to its 1st, 2nd, ... request
    c_requests,    \* HTTP requests the call has sent
    c_pc,          \* position inside the call
    c_result,      \* what the call returned or raised
    s_slots,       \* the slots get_slots answers inside get_slots_for_booking
    s_date,        \* its date argument: local minutes of the day
    s_num_slots,   \* its num_slots argument
    s_pc,          \* position inside get_slots_for_booking
    s_result,      \* what get_slots_for_booking returned or raised
    r_token,       \* the email_or_alias argument of resolve_alias
    r_aliases,     \* its aliases argument: the items of the dict in order
    r_pc,          \* position inside resolve_alias
    r_result,      \* what resolve_alias returned
    k_auth,        \* self.auth of one USCClient: the user it belongs to
    k_pending,     \* the request of that client that awaits its response
    k_log,         \* the calls made on that client, finished, in order
    g_pc,          \* position of GetTimeslotsCommand.handle
    g_date,        \* the date it asks slots for
    g_creds,       \* usc_creds.bookingMembers of the timeslots command
    g_client,      \* its USCClient
    g_timeslots,   \* what get_slots returned to it
    g_sent         \* messages it sent to the chat

avars == <<a_players, a_courts, a_creds, a_pc, a_result>>

hvars == <<h_pc, h_dry_run, h_date, h_allocations, h_exc, h_shortage,
           clients, t_pc, t_result, t_error, book_calls, sent,
           h_help, h_request, alloc_call, t_finished, t_failed_at>>

\* what the steps after the first await of handle leave alone
seen == <<h_help, h_request, alloc_call>>

cvars == <<c_method, c_auth, c_script, c_requests, c_pc, c_result>>

svars == <<s_slots, s_date, s_num_slots, s_pc, s_result>>

\* the variables of the calls followed on their own
rvars == <<r_token, r_aliases, r_pc, r_result>>

kvars == <<k_auth, k_pending, k_log>>

gvars == <<g_pc, g_date, g_creds, g_client, g_timeslots, g_sent>>

ovars == <<svars, rvars, kvars, gvars>>

vars == <<avars, hvars, cvars, ovars>>

NoResult == [kind |-> "none"]

\* no client call is followed
CallOff ==
    /\ c_method = "none"
    /\ c_auth = FALSE
    /\ c_script = <<>>
    /\ c_requests = 0
    /\ c_pc = "off"
    /\ c_result = NoResult

\* get_slots_for_booking is not followed on its own
SlotsOff ==
    /\ s_slots = <<>>
    /\ s_date = 0
    /\ s_num_slots = 0
    /\ s_pc = "off"
    /\ s_result = NoResult

\* resolve_alias is not followed on its own
AliasOff ==
    /\ r_token = ""
    /\ r_aliases = <<>>
    /\ r_pc = "off"
    /\ r_result = ""

\* no single client is followed on its own
ClientOff ==
    /\ k_auth = ""
    /\ k_pending = NoResult
    /\ k_log = <<>>

\* the timeslots command is not followed
TimeslotsOff ==
    /\ g_pc = "off"
    /\ g_date = 0
    /\ g_creds = <<>>
    /\ g_client = [state |-> "none", auth |-> FALSE]
    /\ g_timeslots = <<>>
    /\ g_sent = <<>>

OthersOff == SlotsOff /\ AliasOff /\ ClientOff /\ TimeslotsOff

(***************************************************************************)
(* Bounds and inputs of the book command                                   *)
(***************************************************************************)
MaxMembers == 4
MaxSlots == 3

\* usc_creds of the running bot
bookingMembers == <<BookingMember("john"), BookingMember("sarah"),
                    BookingMember("mike")>>

usc_aliases == << <<"Johnny", "john">> >>

Tokens == {"john", "sarah", "mike", "alice", "JOHNNY"}

MaxGroups == Len(bookingMembers)

Owners == 0..MaxGroups

TaskIds == 1..MaxGroups

\* dateparser.parse returning None
Unparseable == 0 - 1

\* the words a book message is made of, after "book" is stripped
HelpFlags == {"--help", "-h"}

CourtWords == {ToString(n) : n \in 0..MaxCourts} \cup {"many"}

DateWords == {"2024-03-20"}

TimeWords == {"18:00", "20:00", "25:61"}

\* a word with a quotation mark that is never closed
UnbalancedWords == {"\"john"}

\* the positional arguments of a message, complete or cut short
Positionals ==
    {<<>>}
    \cup {<<c>> : c \in CourtWords}
    \cup {<<c, d, t>> : c \in CourtWords, d \in DateWords, t \in TimeWords}
    \cup {<<c, d, t>> \o ms : c \in CourtWords, d \in DateWords,
                             t \in TimeWords,
                             ms \in SeqsUpTo(Tokens, MaxMembers) \ {<<>>}}

InsertAt(s, i, x) == SubSeq(s, 1, i) \o <<x>> \o SubSeq(s, i + 1, Len(s))

\* --dry-run absent, before or after the positional arguments
WithDryRun(p) == {p, <<"--dry-run">> \o p, p \o <<"--dry-run">>}

\* a help flag absent or at any place of the message
WithHelp(a) ==
    {a} \cup {InsertAt(a, i, h) : i \in 0..Len(a), h \in HelpFlags}

\* messages that shlex cannot split
BrokenTexts ==
    {<<"1", "2024-03-20", "18:00", "\"john">>, <<"--help", "\"john">>}

\* slots as the facility reports them: UTC start, availability, court
SlotLists ==
    UNION {{[i \in 1..m |-> [startDate |-> f[i][1], isAvailable |-> f[i][2],
                            bookableProductId |-> i]] :
                f \in [1..m -> {1020, 1065, 1200} \X BOOLEAN]} : m \in 0..MaxSlots}

\* outcomes of one HTTP request
HttpFailures == {"HTTPStatusError", "ConnectError"}

NoClient == [state |-> "none", auth |-> FALSE]

HandlerIdle ==
    /\ h_pc = "idle"
    /\ h_dry_run = FALSE
    /\ h_date = 0
    /\ h_allocations = <<>>
    /\ h_exc = NoResult
    /\ h_shortage = FALSE
    /\ clients = [o \in Owners |-> NoClient]
    /\ t_pc = [g \in TaskIds |-> "none"]
    /\ t_result = [g \in TaskIds |-> NoResult]
    /\ t_error = [g \in TaskIds |-> "none"]
    /\ book_calls = [g \in TaskIds |-> 0]
    /\ sent = <<>>
    /\ h_help = 0
    /\ h_request = NoResult
    /\ alloc_call = NoResult
    /\ t_finished = <<>>
    /\ t_failed_at = [g \in TaskIds |-> "none"]

(***************************************************************************)
(* The allocator applied to every input within the bounds                  *)
(***************************************************************************)
AllocInit ==
    /\ a_players \in PlayerLists
    /\ a_courts \in CourtCounts
    /\ a_creds \in {[i \in 1..Len(s) |-> BookingMember(s[i])] : s \in CredLists}
    /\ a_pc = "call"
    /\ a_result = NoResult
    /\ HandlerIdle
    /\ CallOff
    /\ OthersOff

Allocate ==
    /\ a_pc = "call"
    /\ a_result' = allocate_bookings(a_players, a_courts, a_creds)
    /\ a_pc' = "done"
    /\ UNCHANGED <<a_players, a_courts, a_creds, hvars, cvars, ovars>>

AllocNext == Allocate

SpecAlloc == AllocInit /\ [][AllocNext]_vars

(***************************************************************************)
(* BookTimeslotCommand.handle                                              *)
(***************************************************************************)
\* self.log(c, text): the message goes to the chat
Log(text) == sent' = Append(sent, [via |-> "log", text |-> text])

\* the usage text, an error text, the aggregated booking results
Usage == [kind |-> "usage", lines |-> <<>>, dry_run |-> FALSE]

ErrorText(m) == [kind |-> "error", lines |-> m, dry_run |-> FALSE]

Results(dry, lines) == [kind |-> "results", lines |-> lines, dry_run |-> dry]

\* notify_error, faulty variant: the exception is not reported
NotifyError_silent(e) == UNCHANGED sent

\* notify_error: c.send(f"Error in {func.__name__}: {e}")
NotifyError(e) ==
    sent' = Append(sent, [via |-> "notify_error",
                          text |-> ErrorText(<<"Error in handle:">> \o e.msg)])

\* except of handle, faulty variant: RuntimeError is left to notify_error
Report_by_notify_error(e) == NotifyError(e)

\* except (RuntimeError, ArgumentError) of handle, else notify_error
Report(e) ==
    IF e.kind = "RuntimeError" THEN Log(ErrorText(e.msg)) ELSE NotifyError(e)

\* shlex.split: ValueError on an unclosed quotation
shlex_split(text) ==
    IF \E i \in 1..Len(text) : text[i] \in UnbalancedWords
    THEN [kind |-> "ValueError"]
    ELSE [kind |-> "ok", args |-> text]

\* int() of the courts argument
IsInt(w) == \E n \in 0..MaxCourts : ToString(n) = w

int(w) == CHOOSE n \in 0..MaxCourts : ToString(n) = w

\* self.parser.parse_args(args): --dry-run is a flag, then courts (int),
\* date, time and one or more members; an error exits and is re-raised
parser_parse_args(args) ==
    LET positional == SelectSeq(args, LAMBDA w : w # "--dry-run")
    IN  IF Len(positional) < 4 \/ ~ IsInt(positional[1])
        THEN RuntimeError(<<"Error parsing arguments">>)
        ELSE [kind |-> "Namespace",
              dry_run |-> \E i \in 1..Len(args) : args[i] = "--dry-run",
              courts |-> int(positional[1]),
              date |-> positional[2],
              time |-> positional[3],
              members |-> SubSeq(positional, 4, Len(positional))]

\* _parse_args, faulty variant: only a leading help flag is recognised
parse_args_leading_help(text) ==
    LET split == shlex_split(text)
    IN  IF split.kind # "ok"
        THEN RuntimeError(<<"Error parsing arguments">>)
        ELSE IF split.args # <<>> /\ split.args[1] \in HelpFlags
        THEN [kind |-> "None"]
        ELSE parser_parse_args(split.args)

\* _parse_args: None when help is requested
parse_args(text) ==
    LET split == shlex_split(text)
    IN  IF split.kind # "ok"
        THEN RuntimeError(<<"Error parsing arguments">>)
        ELSE IF \E i \in 1..Len(split.args) : split.args[i] \in HelpFlags
        THEN [kind |-> "None"]
        ELSE parser_parse_args(split.args)

\* dateparser.parse(f"{args.date} {args.time}")
parse(date, time) ==
    IF time = "18:00" THEN 1080
    ELSE IF time = "20:00" THEN 1200
    ELSE Unparseable

\* if args.courts > len(resolved_members), faulty variant: never
courts_exceed_members_never(courts, resolved_members) == FALSE

courts_exceed_members(courts, resolved_members) ==
    courts > Len(resolved_members)

\* handle up to its first await: parse, resolve, validate, allocate; the
\* outcome, with the parsed request and the call of the allocator if made
handle_prefix(text) ==
    LET args == parse_args(text)
    IN  IF args.kind = "None"
        THEN [outcome |-> [kind |-> "help"],
              request |-> NoResult, alloc_call |-> NoResult]
        ELSE IF args.kind # "Namespace"
        THEN [outcome |-> args, request |-> NoResult, alloc_call |-> NoResult]
        ELSE IF parse(args.date, args.time) = Unparseable
        THEN [outcome |-> RuntimeError(<<"Failed to parse date">>),
              request |-> NoResult, alloc_call |-> NoResult]
        ELSE LET resolved_members ==
                     [i \in 1..Len(args.members) |->
                         resolve_alias(args.members[i], usc_aliases)]
                 request == [kind |-> "request", courts |-> args.courts,
                             members |-> resolved_members,
                             dry_run |-> args.dry_run,
                             date |-> parse(args.date, args.time)]
             IN  IF courts_exceed_members(args.courts, resolved_members)
                 THEN [outcome |->
                           [kind |-> "ValueError",
                            msg |-> <<"Cannot book more courts than members">>],
                       request |-> request, alloc_call |-> NoResult]
                 ELSE [outcome |-> allocate_bookings(resolved_members,
                                       args.courts, bookingMembers),
                       request |-> request,
                       alloc_call |-> [kind |-> "call",
                                       players |-> resolved_members,
                                       courts |-> args.courts]]

\* the place of the first help flag among the arguments of the message,
\* 0 when there is none or the message has no arguments at all
HelpArgument(text) ==
    LET split == shlex_split(text)
    IN  IF split.kind = "ok"
           /\ \E i \in 1..Len(split.args) : split.args[i] \in HelpFlags
        THEN CHOOSE i \in 1..Len(split.args) :
                /\ split.args[i] \in HelpFlags
                /\ \A j \in 1..(i - 1) : split.args[j] \notin HelpFlags
        ELSE 0

\* handle runs from the message text to its first await
Handle(text) ==
    LET p == handle_prefix(text)
        r == p.outcome
    IN  /\ h_help' = HelpArgument(text)
        /\ h_request' = IF p.request.kind = "none" THEN NoResult
                        ELSE [kind |-> "request", courts |-> p.request.courts,
                              members |-> p.request.members]
        /\ alloc_call' = p.alloc_call
        /\ IF r.kind = "help"
           THEN /\ Log(Usage)
                /\ h_pc' = "done"
                /\ UNCHANGED <<h_dry_run, h_date, h_allocations, clients>>
           ELSE IF r.kind # "ok"
           THEN /\ Report(r)
                /\ h_pc' = "done"
                /\ UNCHANGED <<h_dry_run, h_date, h_allocations, clients>>
           ELSE /\ h_dry_run' = p.request.dry_run
                /\ h_date' = p.request.date
                /\ h_allocations' =
                       [g \in 1..Len(r.allocations) |->
                           [leader |-> r.allocations[g].leader,
                            members |-> r.allocations[g].members,
                            slot |-> 0]]
                \* usc = USCClient(); await usc.authenticate(first_member)
                /\ clients' = [clients EXCEPT ![0] =
                                   [state |-> "open", auth |-> FALSE]]
                /\ h_pc' = "prefetch_auth"
                /\ UNCHANGED sent

\* a message starting with "book" arrives; handle runs to its first await
HandleMessage ==
    /\ h_pc = "idle"
    /\ \/ \E text \in BrokenTexts : Handle(text)
       \/ \E p \in Positionals :
            \E a \in WithDryRun(p) :
                \E text \in WithHelp(a) : Handle(text)
    /\ UNCHANGED <<h_exc, h_shortage, t_pc, t_result, t_error, book_calls,
                   t_finished, t_failed_at, avars, cvars, ovars>>

\* the facility answers the pre-fetch authenticate
PrefetchAuth ==
    /\ h_pc = "prefetch_auth"
    /\ \/ /\ clients' = [clients EXCEPT ![0].auth = TRUE]
          \* get_slots_for_booking -> get_slots sends its request
          /\ h_pc' = "prefetch_slots"
          /\ UNCHANGED h_exc
       \/ \E f \in HttpFailures :
          /\ h_exc' = [kind |-> f, msg |-> <<f>>]
          /\ h_pc' = "prefetch_close"
          /\ UNCHANGED clients
    /\ UNCHANGED <<h_dry_run, h_date, h_allocations, h_shortage, t_pc,
                   t_result, t_error, book_calls, sent, avars, cvars, ovars, seen,
                   t_finished, t_failed_at>>

\* the facility answers get_slots of the pre-fetch
PrefetchSlots ==
    /\ h_pc = "prefetch_slots"
    /\ \/ \E slots \in SlotLists :
            LET r == get_slots_for_booking(slots, h_date, Len(h_allocations))
                short == Len(format_slots_at(slots, h_date)) < Len(h_allocations)
            IN  /\ h_shortage' = short
                /\ IF r.kind = "ok"
                   THEN IF Len(r.slots) < Len(h_allocations)
                        THEN \* available_slots[i]
                             /\ h_exc' = [kind |-> "IndexError",
                                          msg |-> <<"list index out of range">>]
                             /\ UNCHANGED h_allocations
                        ELSE /\ h_allocations' =
                                    [g \in 1..Len(h_allocations) |->
                                        [h_allocations[g] EXCEPT
                                            !.slot = r.slots[g].bookableProductId]]
                             /\ UNCHANGED h_exc
                   ELSE /\ h_exc' = r
                        /\ UNCHANGED h_allocations
       \/ /\ h_exc' = RuntimeError(<<"Error getting slots">>)
          /\ UNCHANGED <<h_allocations, h_shortage>>
       \/ /\ h_exc' = [kind |-> "ConnectError", msg |-> <<"ConnectError">>]
          /\ UNCHANGED <<h_allocations, h_shortage>>
    /\ h_pc' = "prefetch_close"
    /\ UNCHANGED <<h_dry_run, h_date, clients, t_pc, t_result, t_error,
                   book_calls, sent, avars, cvars, ovars, seen,
                   t_finished, t_failed_at>>

\* finally: await usc.close(); then the error is reported or the tasks of
\* asyncio.gather start: each opens its client and sends authenticate
PrefetchClose ==
    /\ h_pc = "prefetch_close"
    /\ IF h_exc.kind # "none"
       THEN /\ clients' = [clients EXCEPT ![0].state = "closed"]
            /\ Report(h_exc)
            /\ h_pc' = "done"
            /\ UNCHANGED t_pc
       ELSE /\ clients' = [o \in Owners |->
                              IF o = 0 THEN [clients[0] EXCEPT !.state = "closed"]
                              ELSE IF o <= Len(h_allocations)
                              THEN [state |-> "open", auth |-> FALSE]
                              ELSE clients[o]]
            /\ t_pc' = [g \in TaskIds |->
                           IF g <= Len(h_allocations) THEN "auth" ELSE "none"]
            /\ h_pc' = "gather"
            /\ UNCHANGED sent
    /\ UNCHANGED <<h_dry_run, h_date, h_allocations, h_exc, h_shortage,
                   t_result, t_error, book_calls, avars, cvars, ovars, seen,
                   t_finished, t_failed_at>>

(***************************************************************************)
(* BookTimeslotCommand._make_booking, one task per group                   *)
(***************************************************************************)
Exc(k, m) == [kind |-> k, msg |-> m]

\* except Exception as e: return "...Booking failed with ...", faulty variant:
\* the exception leaves the task
on_exception_propagate(dry_run, booking_member, e) ==
    [kind |-> "raised", exc |-> e]

\* except Exception as e: return "...Booking failed with {username}: {e}"
on_exception(dry_run, booking_member, e) ==
    [kind |-> "returned",
     text |-> [kind |-> "failed", dry_run |-> dry_run,
               username |-> booking_member.username, detail |-> e.msg]]

\* "[DRY RUN] Would book slot ... with {username} for members ..."
would_book(group) ==
    [kind |-> "returned",
     text |-> [kind |-> "would_book", dry_run |-> TRUE,
               username |-> group.leader.username,
               detail |-> <<group.slot>> \o group.members]]

\* "Booking successful with {username} for members ..."
booking_successful(group) ==
    [kind |-> "returned",
     text |-> [kind |-> "success", dry_run |-> FALSE,
               username |-> group.leader.username,
               detail |-> group.members]]

\* create_booking_data: assert len(members) <= 2
create_booking_data_accepts(members) == Len(members) <= 2

\* if dry_run: return "[DRY RUN] Would book ...", faulty variant: the
\* booking is submitted whatever the flag
submits_booking_always(dry_run) == TRUE

\* if dry_run: return "[DRY RUN] Would book ...", faulty variant: the
\* booking is never submitted
submits_booking_never(dry_run) == FALSE

\* if dry_run: return "[DRY RUN] Would book ..."; else book_slot is awaited
submits_booking(dry_run) == ~ dry_run

\* the exception e raised by call is caught inside task g; finally closes
\* the client
TaskFails(g, call, e) ==
    /\ t_result' = [t_result EXCEPT ![g] =
                       on_exception(h_dry_run, h_allocations[g].leader, e)]
    /\ t_error' = [t_error EXCEPT ![g] = e.kind]
    /\ t_failed_at' = [t_failed_at EXCEPT ![g] = call]
    /\ t_pc' = [t_pc EXCEPT ![g] = "close"]

\* the facility answers authenticate of task g
TaskAuth(g) ==
    /\ t_pc[g] = "auth"
    /\ \/ /\ clients' = [clients EXCEPT ![g].auth = TRUE]
          \* get_member sends its request
          /\ t_pc' = [t_pc EXCEPT ![g] = "member"]
          /\ UNCHANGED <<t_result, t_error, t_failed_at>>
       \/ \E f \in HttpFailures :
          /\ TaskFails(g, "authenticate", Exc(f, <<f>>))
          /\ UNCHANGED clients
    /\ UNCHANGED <<h_pc, h_dry_run, h_date, h_allocations, h_exc, h_shortage,
                   book_calls, sent, t_finished, avars, cvars, ovars, seen>>

\* the facility answers get_member of task g; the payload is built and,
\* unless this is a dry run, book_slot sends its request
TaskMember(g) ==
    /\ t_pc[g] = "member"
    /\ \/ IF ~ create_booking_data_accepts(h_allocations[g].members)
          THEN /\ TaskFails(g, "create_booking_data",
                            Exc("AssertionError",
                                <<"Only 2 members can be invited to a slot">>))
               /\ UNCHANGED book_calls
          ELSE IF ~ submits_booking(h_dry_run)
          THEN /\ t_result' = [t_result EXCEPT ![g] = would_book(h_allocations[g])]
               /\ t_pc' = [t_pc EXCEPT ![g] = "close"]
               /\ UNCHANGED <<t_error, t_failed_at, book_calls>>
          ELSE /\ book_calls' = [book_calls EXCEPT ![g] = @ + 1]
               /\ t_pc' = [t_pc EXCEPT ![g] = "book"]
               /\ UNCHANGED <<t_result, t_error, t_failed_at>>
       \/ /\ TaskFails(g, "get_member", RuntimeError(<<"Error getting member">>))
          /\ UNCHANGED book_calls
       \/ /\ TaskFails(g, "get_member", Exc("ConnectError", <<"ConnectError">>))
          /\ UNCHANGED book_calls
    /\ UNCHANGED <<h_pc, h_dry_run, h_date, h_allocations, h_exc, h_shortage,
                   clients, sent, t_finished, avars, cvars, ovars, seen>>

\* the facility answers book_slot of task g
TaskBook(g) ==
    /\ t_pc[g] = "book"
    /\ \/ /\ t_result' = [t_result EXCEPT ![g] =
                             booking_successful(h_allocations[g])]
          /\ t_pc' = [t_pc EXCEPT ![g] = "close"]
          /\ UNCHANGED <<t_error, t_failed_at>>
       \/ TaskFails(g, "book_slot", RuntimeError(<<"Error booking slot">>))
       \/ TaskFails(g, "book_slot", Exc("ConnectError", <<"ConnectError">>))
    /\ UNCHANGED <<h_pc, h_dry_run, h_date, h_allocations, h_exc, h_shortage,
                   clients, book_calls, sent, t_finished, avars, cvars, ovars, seen>>

\* finally: await usc.close(); the task is finished
TaskClose(g) ==
    /\ t_pc[g] = "close"
    /\ clients' = [clients EXCEPT ![g].state = "closed"]
    /\ t_pc' = [t_pc EXCEPT ![g] = "done"]
    /\ t_finished' = Append(t_finished, g)
    /\ UNCHANGED <<h_pc, h_dry_run, h_date, h_allocations, h_exc, h_shortage,
                   t_result, t_error, t_failed_at, book_calls, sent, avars, cvars, ovars, seen>>

\* asyncio.gather, faulty variant: the results in the order the tasks finished
gather_as_completed(results, finished) ==
    [i \in 1..Len(finished) |-> results[finished[i]]]

\* asyncio.gather: the results in the order of the awaitables passed in
gather(results, finished) ==
    [g \in 1..Len(finished) |-> results[g]]

\* await asyncio.gather(*booking_tasks) resumes handle: with the first
\* exception a task raised, else with all results in the order of the tasks
GatherDone ==
    /\ h_pc = "gather"
    /\ LET groups == 1..Len(h_allocations)
           raised == {g \in groups : t_pc[g] = "done" /\ t_result[g].kind = "raised"}
       IN  IF raised # {}
           THEN \E g \in raised : Report(t_result[g].exc)
           ELSE /\ \A g \in groups : t_pc[g] = "done"
                /\ LET results == gather(t_result, t_finished)
                   IN  Log(Results(h_dry_run,
                                   [g \in groups |-> results[g].text]))
    /\ h_pc' = "done"
    /\ UNCHANGED <<h_dry_run, h_date, h_allocations, h_exc, h_shortage,
                   clients, t_pc, t_result, t_error, book_calls,
                   t_finished, t_failed_at, avars, cvars, ovars, seen>>

Init ==
    /\ HandlerIdle
    /\ a_players = <<>>
    /\ a_courts = 0
    /\ a_creds = <<>>
    /\ a_pc = "off"
    /\ a_result = NoResult
    /\ CallOff
    /\ OthersOff

Next ==
    \/ HandleMessage
    \/ PrefetchAuth
    \/ PrefetchSlots
    \/ PrefetchClose
    \/ \E g \in TaskIds : TaskAuth(g)
    \/ \E g \in TaskIds : TaskMember(g)
    \/ \E g \in TaskIds : TaskBook(g)
    \/ \E g \in TaskIds : TaskClose(g)
    \/ GatherDone

Spec == Init /\ [][Next]_vars

(***************************************************************************)
(* One call of USCClient.authenticate, get_member or get_slots             *)
(***************************************************************************)
\* the attempts tests/test_usc_retry.py expects of a call before it gives up
MaxAttempts == 4

Methods == {"authenticate", "get_member", "get_slots"}

\* what the facility does with one request: a 200 response that validates,
\* a 200 response that fails validation, an error status, no response
Answers == {"200", "invalid", "400", "429", "500", "network"}

ErrorStatus == {"400", "429", "500"}

\* except httpx.HTTPStatusError of get_member and get_slots; authenticate
\* has none
on_status_error(method) ==
    IF method = "authenticate" THEN [kind |-> "HTTPStatusError"]
    ELSE [kind |-> "RuntimeError"]

CallInit ==
    /\ c_method \in Methods
    /\ c_auth \in BOOLEAN
    /\ c_script \in [1..MaxAttempts -> Answers]
    /\ c_requests = 0
    /\ c_pc = "call"
    /\ c_result = NoResult
    /\ OthersOff
    /\ HandlerIdle
    /\ a_players = <<>>
    /\ a_courts = 0
    /\ a_creds = <<>>
    /\ a_pc = "off"
    /\ a_result = NoResult

\* the method is entered: if not self.auth: raise RuntimeError("Not
\* authenticated"), else the request is sent
CallSend ==
    /\ c_pc = "call"
    /\ IF c_method # "authenticate" /\ ~ c_auth
       THEN /\ c_pc' = "raised"
            /\ c_result' = [kind |-> "RuntimeError"]
            /\ UNCHANGED c_requests
       ELSE /\ c_requests' = c_requests + 1
            /\ c_pc' = "await"
            /\ UNCHANGED c_result
    /\ UNCHANGED <<c_method, c_auth, c_script, avars, hvars, ovars>>

\* the request is answered: raise_for_status, then the response model is
\* built and returned
CallAnswer ==
    /\ c_pc = "await"
    /\ LET answer == c_script[c_requests]
       IN  IF answer = "network"
           THEN /\ c_pc' = "raised"
                /\ c_result' = [kind |-> "ConnectError"]
                /\ UNCHANGED c_auth
           ELSE IF answer \in ErrorStatus
           THEN /\ c_pc' = "raised"
                /\ c_result' = on_status_error(c_method)
                /\ UNCHANGED c_auth
           ELSE IF answer = "invalid"
           THEN /\ c_pc' = "raised"
                /\ c_result' = [kind |-> "ValidationError"]
                /\ UNCHANGED c_auth
           ELSE /\ c_pc' = "returned"
                /\ c_result' = [kind |-> "ok"]
                /\ c_auth' = IF c_method = "authenticate" THEN TRUE ELSE c_auth
    /\ UNCHANGED <<c_method, c_script, c_requests, avars, hvars, ovars>>

CallNext == CallSend \/ CallAnswer

SpecCall == CallInit /\ [][CallNext]_vars

(***************************************************************************)
(* One call of USCClient.get_slots_for_booking                             *)
(***************************************************************************)
\* the local times asked for: 18:00 and 18:45, and 21:00 outside the window
SlotDates == {1080, 1125, 1260}

SlotsInit ==
    /\ s_slots \in SlotLists
    /\ s_date \in SlotDates
    /\ s_num_slots \in 0..(MaxSlots + 1)
    /\ s_pc = "call"
    /\ s_result = NoResult
    /\ AliasOff
    /\ ClientOff
    /\ TimeslotsOff
    /\ HandlerIdle
    /\ CallOff
    /\ a_players = <<>>
    /\ a_courts = 0
    /\ a_creds = <<>>
    /\ a_pc = "off"
    /\ a_result = NoResult

\* get_slots answers with s_slots, or fails
GetSlotsForBooking ==
    /\ s_pc = "call"
    /\ \/ s_result' = get_slots_for_booking(s_slots, s_date, s_num_slots)
       \/ s_result' = RuntimeError(<<"Error getting slots">>)
    /\ s_pc' = "done"
    /\ UNCHANGED <<s_slots, s_date, s_num_slots, rvars, kvars, gvars,
                   avars, hvars, cvars>>

SlotsNext == GetSlotsForBooking

SpecSlots == SlotsInit /\ [][SlotsNext]_vars

(***************************************************************************)
(* One call of resolve_alias                                               *)
(***************************************************************************)
MaxAliases == 2

AliasKeys == {"Johnny", "JOHNNY", "alice"}

AliasValues == {"john", "sarah"}

AliasTokens == {"john", "johnny", "Johnny", "JOHNNY", "alice", "Alice"}

\* the items of a dict: no key twice
AliasDicts ==
    {d \in SeqsUpTo(AliasKeys \X AliasValues, MaxAliases) :
        \A i, j \in 1..Len(d) : i # j => d[i][1] # d[j][1]}

AliasInit ==
    /\ r_token \in AliasTokens
    /\ r_aliases \in AliasDicts
    /\ r_pc = "call"
    /\ r_result = ""
    /\ SlotsOff
    /\ ClientOff
    /\ TimeslotsOff
    /\ HandlerIdle
    /\ CallOff
    /\ a_players = <<>>
    /\ a_courts = 0
    /\ a_creds = <<>>
    /\ a_pc = "off"
    /\ a_result = NoResult

ResolveAlias ==
    /\ r_pc = "call"
    /\ r_result' = resolve_alias(r_token, r_aliases)
    /\ r_pc' = "done"
    /\ UNCHANGED <<r_token, r_aliases, svars, kvars, gvars, avars, hvars, cvars>>

AliasNext == ResolveAlias

SpecAlias == AliasInit /\ [][AliasNext]_vars

(***************************************************************************)
(* One USCClient and the calls made on it                                  *)
(***************************************************************************)
MaxCalls == 3

ClientUsers == {"john", "sarah"}

ClientMethods == {"authenticate", "get_slots", "get_member", "book_slot"}

\* if not self.auth, faulty variant: the check is missing
not_authenticated_unchecked(auth) == FALSE

\* if not self.auth: raise RuntimeError("Not authenticated")
not_authenticated(auth) == auth = ""

\* what a method does with the answer to its request
client_outcome(method, answer) ==
    IF answer = "network" THEN "ConnectError"
    ELSE IF answer \in ErrorStatus
    THEN on_status_error(method).kind
    ELSE IF answer = "invalid" /\ method # "book_slot" THEN "ValidationError"
    ELSE "ok"

ClientInit ==
    /\ ClientOff
    /\ SlotsOff
    /\ AliasOff
    /\ TimeslotsOff
    /\ HandlerIdle
    /\ CallOff
    /\ a_players = <<>>
    /\ a_courts = 0
    /\ a_creds = <<>>
    /\ a_pc = "off"
    /\ a_result = NoResult

\* authenticate(username, password) sends its POST
ClientAuthenticate(user) ==
    /\ k_pending = NoResult
    /\ Len(k_log) < MaxCalls
    /\ k_pending' = [kind |-> "request", method |-> "authenticate",
                     user |-> user]
    /\ UNCHANGED <<k_auth, k_log>>
    /\ UNCHANGED <<svars, rvars, gvars, avars, hvars, cvars>>

\* get_slots, get_member or book_slot is entered: it raises when the
\* client holds no auth, else it sends its request with the client's token
ClientUse(method) ==
    /\ k_pending = NoResult
    /\ Len(k_log) < MaxCalls
    /\ IF not_authenticated(k_auth)
       THEN /\ k_log' = Append(k_log, [method |-> method, requested |-> FALSE,
                                        user |-> "",
                                        outcome |-> "Not authenticated"])
            /\ UNCHANGED k_pending
       ELSE /\ k_pending' = [kind |-> "request", method |-> method,
                             user |-> k_auth]
            /\ UNCHANGED k_log
    /\ UNCHANGED <<k_auth, svars, rvars, gvars, avars, hvars, cvars>>

\* the facility answers the request in flight
ClientAnswer(answer) ==
    /\ k_pending # NoResult
    /\ LET outcome == client_outcome(k_pending.method, answer)
       IN  /\ k_log' = Append(k_log, [method |-> k_pending.method,
                                       requested |-> TRUE,
                                       user |-> k_pending.user,
                                       outcome |-> outcome])
           /\ k_auth' = IF k_pending.method = "authenticate" /\ outcome = "ok"
                        THEN k_pending.user ELSE k_auth
    /\ k_pending' = NoResult
    /\ UNCHANGED <<svars, rvars, gvars, avars, hvars, cvars>>

ClientNext ==
    \/ \E user \in ClientUsers : ClientAuthenticate(user)
    \/ \E method \in ClientMethods \ {"authenticate"} : ClientUse(method)
    \/ \E answer \in Answers : ClientAnswer(answer)

SpecClient == ClientInit /\ [][ClientNext]_vars

(***************************************************************************)
(* GetTimeslotsCommand.handle                                              *)
(***************************************************************************)
\* the texts that start with "timeslots": no date, a date, a date that
\* dateparser cannot parse, a text the message pattern does not match
TimeslotsTexts ==
    {"timeslots", "timeslots 2024-03-20", "timeslots 2024-13-45",
     "timeslots tomorrow"}

\* self.message_pattern.match(c.message.text)
message_pattern_match(text) == text # "timeslots tomorrow"

\* parse(date_str.strip()), or parse("6 days later") without a date: the
\* day of the month, Unparseable for None
timeslots_date(text) ==
    IF text = "timeslots" THEN 26
    ELSE IF text = "timeslots 2024-03-20" THEN 20
    ELSE Unparseable

\* the local start times of the available slots inside the time window
slot_keys(slots) ==
    {offset_slot_date(slots[i].startDate) : i \in
        {k \in 1..Len(slots) :
            /\ slots[k].isAvailable
            /\ ~ (offset_slot_date(slots[k].startDate) < FROM_TIME
                  \/ offset_slot_date(slots[k].startDate) > UNTIL_TIME)}}

\* dict(sorted(grouped.items())) as the list of its items
RECURSIVE sorted_groups(_, _)
sorted_groups(keys, slots) ==
    IF keys = {} THEN <<>>
    ELSE LET first == CHOOSE k \in keys : \A other \in keys : k <= other
         IN  <<[key |-> first, slots |-> format_slots_at(slots, first)]>>
             \o sorted_groups(keys \ {first}, slots)

\* format_slots: the available slots inside the window, grouped by local
\* start, the groups sorted by start
format_slots(slots) == sorted_groups(slot_keys(slots), slots)

\* "- {start} - {end} - **{len(slots)} slots available**" per group
timeslots_response(day, slots) ==
    LET grouped_slots == format_slots(slots)
    IN  [kind |-> "slots", day |-> day,
         lines |-> [i \in 1..Len(grouped_slots) |->
                       <<grouped_slots[i].key, Len(grouped_slots[i].slots)>>]]

TimeslotsInit ==
    /\ g_pc = "idle"
    /\ g_date = 0
    /\ g_creds \in {<<>>, bookingMembers}
    /\ g_client = [state |-> "none", auth |-> FALSE]
    /\ g_timeslots = <<>>
    /\ g_sent = <<>>
    /\ SlotsOff
    /\ AliasOff
    /\ ClientOff
    /\ HandlerIdle
    /\ CallOff
    /\ a_players = <<>>
    /\ a_courts = 0
    /\ a_creds = <<>>
    /\ a_pc = "off"
    /\ a_result = NoResult

\* c.send(text)
TimeslotsSend(text) ==
    g_sent' = Append(g_sent, [via |-> "send", text |-> text])

\* notify_error around the timeslots handle
TimeslotsNotifyError(e) ==
    g_sent' = Append(g_sent, [via |-> "notify_error",
                              text |-> [kind |-> "error", day |-> 0,
                                        lines |-> << <<e, 0>> >>]])

\* a message starting with "timeslots" arrives; handle runs to its first
\* await on the facility
TimeslotsMessage ==
    /\ g_pc = "idle"
    /\ \E text \in TimeslotsTexts :
        IF ~ message_pattern_match(text)
        THEN /\ TimeslotsSend([kind |-> "invalid_format", day |-> 0, lines |-> <<>>])
             /\ g_pc' = "done"
             /\ UNCHANGED <<g_date, g_client>>
        ELSE IF timeslots_date(text) = Unparseable
        THEN /\ TimeslotsSend([kind |-> "invalid_date", day |-> 0, lines |-> <<>>])
             /\ g_pc' = "done"
             /\ UNCHANGED <<g_date, g_client>>
        ELSE IF g_creds = <<>>
        THEN /\ TimeslotsSend([kind |-> "no_members", day |-> 0, lines |-> <<>>])
             /\ g_pc' = "done"
             /\ UNCHANGED <<g_date, g_client>>
        ELSE \* usc = USCClient(); await usc.authenticate(...)
             /\ g_date' = timeslots_date(text)
             /\ g_client' = [state |-> "open", auth |-> FALSE]
             /\ g_pc' = "auth"
             /\ UNCHANGED g_sent
    /\ UNCHANGED <<g_creds, g_timeslots, svars, rvars, kvars, avars, hvars, cvars>>

\* the facility answers authenticate; on success get_slots sends its
\* request, on failure the exception leaves handle
TimeslotsAuth ==
    /\ g_pc = "auth"
    /\ \/ /\ g_client' = [g_client EXCEPT !.auth = TRUE]
          /\ g_pc' = "slots"
          /\ UNCHANGED g_sent
       \/ \E f \in HttpFailures :
          /\ TimeslotsNotifyError(f)
          /\ g_pc' = "done"
          /\ UNCHANGED g_client
    /\ UNCHANGED <<g_date, g_creds, g_timeslots, svars, rvars, kvars,
                   avars, hvars, cvars>>

\* the facility answers get_slots; on success the response is formatted
\* and sent, on failure the exception leaves handle
TimeslotsSlots ==
    /\ g_pc = "slots"
    /\ \/ \E slots \in SlotLists :
          /\ g_timeslots' = slots
          /\ TimeslotsSend(timeslots_response(g_date, slots))
          /\ g_pc' = "close"
       \/ \E f \in {"RuntimeError", "ConnectError"} :
          /\ TimeslotsNotifyError(f)
          /\ g_pc' = "done"
          /\ UNCHANGED g_timeslots
    /\ UNCHANGED <<g_date, g_creds, g_client, svars, rvars, kvars,
                   avars, hvars, cvars>>

\* await usc.close(), the last statement of handle
TimeslotsClose ==
    /\ g_pc = "close"
    /\ g_client' = [g_client EXCEPT !.state = "closed"]
    /\ g_pc' = "done"
    /\ UNCHANGED <<g_date, g_creds, g_timeslots, g_sent, svars, rvars, kvars,
                   avars, hvars, cvars>>

TimeslotsNext ==
    \/ TimeslotsMessage
    \/ TimeslotsAuth
    \/ TimeslotsSlots
    \/ TimeslotsClose

SpecTimeslots == TimeslotsInit /\ [][TimeslotsNext]_vars

(***************************************************************************)
(* Properties of the allocator                                             *)
(***************************************************************************)
Returned == a_pc = "done" /\ a_result.kind = "ok"

Groups == a_result.allocations

\* leader followed by members, over all groups in order
RECURSIVE Flatten(_)
Flatten(gs) ==
    IF gs = <<>> THEN <<>>
    ELSE <<Head(gs).leader.username>> \o Head(gs).members \o Flatten(Tail(gs))

Occurrences(s, x) == Cardinality({i \in 1..Len(s) : s[i] = x})

IsCourtsError(r) ==
    /\ r.kind = "RuntimeError"
    /\ r.msg[1] = "Requested"

IsLeadersError(r) ==
    /\ r.kind = "RuntimeError"
    /\ r.msg[1] = "Not enough authenticated booking members available to book"

\* the requested players that hold credentials
CredentialedInRequest ==
    {i \in 1..Len(a_creds) : a_creds[i].username \in Range(a_players)}

\* C1: whenever an allocation is returned for distinct participants, every
\* participant occurs exactly once among the leaders and members of all
\* groups, and nobody else occurs.
C1_Conservation ==
    (Returned /\ IsDistinct(a_players)) =>
        /\ \A p \in Range(a_players) : Occurrences(Flatten(Groups), p) = 1
        /\ Range(Flatten(Groups)) \subseteq Range(a_players)

C1_Witness ==
    /\ Returned
    /\ IsDistinct(a_players)
    /\ Len(a_players) = 5
    /\ Len(Groups) = 2

\* C2: for every non-empty list of distinct participants, every court
\* count and every credential list with unique usernames, the allocator
\* returns an allocation or fails with one of the two named allocation
\* errors; no other failure (index, value or division error) occurs.
C2_OnlyNamedErrors ==
    (a_pc = "done" /\ IsDistinct(a_players) /\ Len(a_players) >= 1) =>
        \/ a_result.kind = "ok"
        \/ IsCourtsError(a_result)
        \/ IsLeadersError(a_result)

\* C3: every group of a returned allocation has at most 3 co-participants.
C3_GroupSizeBound ==
    Returned => \A g \in 1..Len(Groups) : Len(Groups[g].members) + 1 <= 4

C3_Witness ==
    /\ Returned
    /\ \E g \in 1..Len(Groups) : Len(Groups[g].members) + 1 = 4

\* C4: each leader is a configured credentialed member, is one of the
\* requested participants, is absent from its own members list and leads
\* exactly one group.
C4_LeaderSelfInclusion ==
    Returned =>
        \A g \in 1..Len(Groups) :
            /\ \E i \in 1..Len(a_creds) : a_creds[i] = Groups[g].leader
            /\ Groups[g].leader.username \in Range(a_players)
            /\ Groups[g].leader.username \notin Range(Groups[g].members)
            /\ \A h \in 1..Len(Groups) :
                   Groups[h].leader.username = Groups[g].leader.username => h = g

C4_Witness ==
    /\ Returned
    /\ Len(Groups) = 2
    /\ Len(Groups[1].members) > 0
    /\ Cardinality(CredentialedInRequest) = 3

\* C5: with at least one participant, fewer requested courts than
\* ceil(n/4) is the insufficient-courts error, however many participants
\* hold credentials.
C5_CourtFloor ==
    (a_pc = "done" /\ Len(a_players) >= 1
        /\ a_courts * 4 < Len(a_players)) =>
        a_result = CourtsError(a_courts, (Len(a_players) + 3) \div 4,
                               Len(a_players))

C5_Witness ==
    /\ a_pc = "done"
    /\ Len(a_players) = 5
    /\ a_courts = 1
    /\ CredentialedInRequest = {}
    /\ IsCourtsError(a_result)

\* C6: once the court floor is met, the insufficient-leaders error is
\* raised exactly when fewer requested participants hold credentials than
\* max(ceil(n/4), requested courts).
C6_LeaderSufficiency ==
    (a_pc = "done" /\ a_courts * 4 >= Len(a_players)) =>
        (IsLeadersError(a_result) <=>
            Cardinality(CredentialedInRequest)
                < Max((Len(a_players) + 3) \div 4, a_courts))

C6_Witness ==
    /\ a_pc = "done"
    /\ IsLeadersError(a_result)
    /\ Cardinality(CredentialedInRequest) = 1
    /\ a_courts = 2

\* C7: a returned allocation has exactly max(ceil(n/4), requested courts)
\* groups, which is the requested court count.
C7_CourtCount ==
    Returned =>
        /\ Len(Groups) = Max((Len(a_players) + 3) \div 4, a_courts)
        /\ Len(Groups) = a_courts

C7_Witness ==
    /\ Returned
    /\ Len(a_players) = 3
    /\ a_courts = 2
    /\ Len(Groups) = 2

\* C8: the leaders are the first courts_to_use credentialed members, in
\* credential-list order, whose username is requested; the groups come in
\* that order: the g-th leader is the g-th configured member that is named
\* in the request, whatever the order of the request.
C8_LeaderPriority ==
    Returned =>
        \A g \in 1..Len(Groups) :
            \E i \in CredentialedInRequest :
                /\ Groups[g].leader = a_creds[i]
                /\ Cardinality({k \in CredentialedInRequest : k <= i}) = g

C8_Witness ==
    /\ Returned
    /\ Len(Groups) = 2
    /\ Cardinality(CredentialedInRequest) = 3
    /\ a_players[1] = a_creds[3].username

(***************************************************************************)
(* Properties of the book command                                          *)
(***************************************************************************)
GroupIds == 1..Len(h_allocations)

\* handle has finished after its group tasks were started
TasksGathered == h_pc = "done" /\ h_allocations # <<>> /\ t_pc[1] # "none"

\* the one message sent is the aggregated response, one line per group
AggregatedResponse ==
    /\ Len(sent) = 1
    /\ sent[1].text.kind = "results"
    /\ Len(sent[1].text.lines) = Len(h_allocations)

\* C9: when handle has gathered its group tasks, every task has run to
\* completion and has its own line in the response; the line of a group is
\* a failure message exactly when an exception occurred inside that
\* group's own task, whatever happened in the other tasks and in whatever
\* order the tasks ran.
C9_FailureIsolation ==
    TasksGathered =>
        /\ AggregatedResponse
        /\ \A g \in GroupIds :
            /\ t_pc[g] = "done"
            /\ t_result[g].kind = "returned"
            /\ sent[1].text.lines[g] = t_result[g].text
            /\ sent[1].text.lines[g].username = h_allocations[g].leader.username
            /\ (sent[1].text.lines[g].kind = "failed" <=> t_error[g] # "none")

C9_Witness ==
    /\ TasksGathered
    /\ AggregatedResponse
    /\ \E g, h \in GroupIds :
        /\ g < h
        /\ t_error[g] = "HTTPStatusError"
        /\ sent[1].text.lines[h].kind = "success"

PrefetchCredentialsRejected ==
    /\ h_pc = "done"
    /\ clients[0].state = "closed"
    /\ ~ clients[0].auth
    /\ Len(sent) = 1
    /\ sent[1].text.lines = <<"Error in handle:", "HTTPStatusError">>

\* the facility refused the credentials of the leader of group g
TaskCredentialsRejected(g) ==
    /\ t_pc[g] = "done"
    /\ ~ clients[g].auth
    /\ t_error[g] = "HTTPStatusError"

\* C11: when the facility rejects the credentials of a leader, the first
\* leader included, the response is the aggregated one, only the group of
\* that leader is reported as failed and every group task has run.
C11_PerGroupAuthFailure ==
    (h_pc = "done"
        /\ (PrefetchCredentialsRejected
            \/ \E g \in GroupIds : TaskCredentialsRejected(g))) =>
        /\ AggregatedResponse
        /\ \A g \in GroupIds : t_pc[g] = "done"

\* C12: the aggregated response has exactly one line per group and line g
\* is the result of group g of the allocation, whatever the order in which
\* the group tasks finished.
C12_OrderPreservingAggregation ==
    TasksGathered =>
        /\ AggregatedResponse
        /\ Len(t_finished) = Len(h_allocations)
        /\ [g \in GroupIds |-> sent[1].text.lines[g].username]
               = [g \in GroupIds |-> h_allocations[g].leader.username]
        /\ \A g \in GroupIds : sent[1].text.lines[g] = t_result[g].text

C12_Witness ==
    /\ TasksGathered
    /\ AggregatedResponse
    /\ Len(h_allocations) = 3
    /\ t_finished = <<3, 1, 2>>
    /\ sent[1].text.lines[1].username # sent[1].text.lines[3].username

\* C13: in a command with --dry-run no task ever sends a book_slot request
\* and the aggregated response carries the [DRY RUN] prefix.
C13_DryRunNeverBooks ==
    h_dry_run =>
        /\ \A g \in TaskIds : book_calls[g] = 0 /\ t_pc[g] # "book"
        /\ TasksGathered => AggregatedResponse /\ sent[1].text.dry_run

C13_Witness ==
    /\ TasksGathered
    /\ h_dry_run
    /\ Len(h_allocations) >= 2
    /\ sent[1].text.dry_run
    /\ sent[1].text.lines[1].kind = "would_book"
    /\ sent[1].text.lines[2].kind = "failed"

\* C14: in a command without --dry-run no task sends more than one
\* book_slot request; a task whose authenticate, get_member and
\* create_booking_data succeeded has sent exactly one, the others none; the
\* line of a group whose book_slot succeeded is the success message and the
\* response has no [DRY RUN] prefix.
C14_SubmitExactlyOnce ==
    ~ h_dry_run =>
        /\ \A g \in TaskIds : book_calls[g] <= 1
        /\ TasksGathered =>
            /\ AggregatedResponse
            /\ ~ sent[1].text.dry_run
            /\ \A g \in GroupIds :
                /\ book_calls[g] =
                       IF t_failed_at[g] \in {"none", "book_slot"} THEN 1 ELSE 0
                /\ t_failed_at[g] = "none" =>
                       sent[1].text.lines[g] = booking_successful(h_allocations[g]).text

C14_Witness ==
    /\ TasksGathered
    /\ ~ h_dry_run
    /\ Len(h_allocations) >= 2
    /\ t_failed_at[1] = "none"
    /\ book_calls[1] = 1
    /\ sent[1].text.lines[1].kind = "success"
    /\ t_failed_at[2] = "book_slot"
    /\ book_calls[2] = 1

\* no client was created, no task started, no booking request sent
NothingAttempted ==
    /\ \A o \in Owners : clients[o] = NoClient
    /\ \A g \in TaskIds : t_pc[g] = "none" /\ book_calls[g] = 0

\* C15: when --help or -h is anywhere among the arguments of the message,
\* handle sends the usage text through log, not an error, and calls no
\* allocator, creates no client and sends no request.
C15_HelpPerformsNothingElse ==
    (h_pc # "idle" /\ h_help > 0) =>
        /\ h_pc = "done"
        /\ sent = <<[via |-> "log", text |-> Usage]>>
        /\ h_request = NoResult
        /\ alloc_call = NoResult
        /\ NothingAttempted

C15_Witness ==
    /\ h_pc = "done"
    /\ h_help > 4
    /\ sent = <<[via |-> "log", text |-> Usage]>>

\* C16: the allocator is only called with a court count that does not
\* exceed the number of resolved members; a command asking for more courts
\* than it names members ends with the validation error, without a call of
\* the allocator and without any client.
C16_CourtCountValidation ==
    /\ alloc_call.kind = "call" =>
           alloc_call.courts <= Len(alloc_call.players)
    /\ (h_request.kind = "request"
            /\ h_request.courts > Len(h_request.members)) =>
        /\ h_pc = "done"
        /\ alloc_call = NoResult
        /\ Len(sent) = 1
        /\ sent[1].text.kind = "error"
        /\ sent[1].text.lines[Len(sent[1].text.lines)]
               = "Cannot book more courts than members"
        /\ NothingAttempted

C16_Witness ==
    /\ h_pc = "done"
    /\ h_request.kind = "request"
    /\ h_request.courts = 3
    /\ Len(h_request.members) = 2
    /\ alloc_call = NoResult

\* what the allocator answered to the call handle made
AllocatorAnswer ==
    allocate_bookings(alloc_call.players, alloc_call.courts, bookingMembers)

\* C17: when the allocator fails with the error of too few courts or of too
\* few leaders, that error text is the single message sent, unchanged, and
\* no client is created, no task started and no request sent.
C17_AllocationErrorsStopCommand ==
    (alloc_call.kind = "call"
        /\ (IsCourtsError(AllocatorAnswer) \/ IsLeadersError(AllocatorAnswer))) =>
        /\ h_pc = "done"
        /\ sent = <<[via |-> "log", text |-> ErrorText(AllocatorAnswer.msg)]>>
        /\ NothingAttempted

C17_Witness ==
    /\ h_pc = "done"
    /\ alloc_call.kind = "call"
    /\ IsLeadersError(AllocatorAnswer)
    /\ alloc_call.courts = 2
    /\ Len(sent) = 1
    /\ sent[1].via = "log"

\* the awaits handle and task g still have before them
HandleRemaining ==
    CASE h_pc = "idle" -> 5
      [] h_pc = "prefetch_auth" -> 4
      [] h_pc = "prefetch_slots" -> 3
      [] h_pc = "prefetch_close" -> 2
      [] h_pc = "gather" -> 1
      [] h_pc = "done" -> 0

TaskRemaining(g) ==
    CASE t_pc[g] = "none" -> 5
      [] t_pc[g] = "auth" -> 4
      [] t_pc[g] = "member" -> 3
      [] t_pc[g] = "book" -> 2
      [] t_pc[g] = "close" -> 1
      [] t_pc[g] = "done" -> 0

RECURSIVE TasksRemaining(_)
TasksRemaining(n) == IF n = 0 THEN 0 ELSE TaskRemaining(n) + TasksRemaining(n - 1)

Remaining == HandleRemaining + TasksRemaining(MaxGroups)

\* C18: whatever message handle has accepted and whatever the facility
\* answers, handle is never left without a next step before it has
\* finished, every step brings it nearer to its end, and when it has
\* finished it has sent exactly one text to the chat, so that no exception
\* is left unreported.
C18_EveryPathEndsInAMessage ==
    /\ [](h_pc = "done" => Len(sent) = 1 /\ sent[1].text.kind \in {"usage", "error", "results"})
    /\ [](h_pc \notin {"idle", "done"} => ENABLED Next)
    /\ [][Remaining' < Remaining]_vars

C18_Witness ==
    /\ h_pc = "done"
    /\ alloc_call.kind = "call"
    /\ AllocatorAnswer.kind = "ok"
    /\ clients[0].auth
    /\ h_exc.kind = "ConnectError"
    /\ Len(sent) = 1
    /\ sent[1].via = "notify_error"

\* the call has returned or raised
CallFinished == c_pc \in {"returned", "raised"}

\* the client may send the request of the method
CallAllowed == c_method = "authenticate" \/ c_auth

\* the k-th request is the first the facility answers with a valid response
FirstSuccessAt(k) ==
    /\ c_script[k] = "200"
    /\ \A j \in 1..(k - 1) : c_script[j] # "200"

\* C19 as stated: when the k-th request is the first one the facility
\* answers with success, k <= 4, the finished call has returned that
\* success after exactly k requests.
C19_RetryUntilFirstSuccess ==
    (CallFinished /\ CallAllowed) =>
        \A k \in 1..MaxAttempts :
            FirstSuccessAt(k) => c_pc = "returned" /\ c_requests = k

\* C20 as stated: when the facility answers none of the requests with
\* success, the finished call has sent exactly 4 requests and raised a
\* RuntimeError; no call sends a fifth request.
C20_BoundedRetries ==
    /\ c_requests <= MaxAttempts
    /\ (CallFinished /\ CallAllowed /\ (\A k \in 1..MaxAttempts : c_script[k] # "200")) =>
        /\ c_requests = MaxAttempts
        /\ c_pc = "raised"
        /\ c_result.kind = "RuntimeError"

\* the slots of the facility that are available and start at the local
\* time asked for
MatchingSlots ==
    {i \in 1..Len(s_slots) :
        /\ s_slots[i].isAvailable
        /\ offset_slot_date(s_slots[i].startDate) = s_date}

AliasHits ==
    {i \in 1..Len(r_aliases) : Lower(r_aliases[i][1]) = Lower(r_token)}

\* C22: resolve_alias returns for every token and every alias dict; when
\* some key equals the token ignoring letter case the result is the value
\* of such a key, otherwise it is the token as it was given; the alias
\* dict is left as it was.
C22_AliasResolution ==
    /\ [](r_pc = "call" => ENABLED ResolveAlias)
    /\ [](r_pc = "done" =>
            IF AliasHits # {}
            THEN \E i \in AliasHits : r_result = r_aliases[i][2]
            ELSE r_result = r_token)
    /\ [][r_aliases' = r_aliases /\ r_token' = r_token]_vars

C22_Witness ==
    /\ r_pc = "done"
    /\ r_token = "Alice"
    /\ r_aliases = << <<"Johnny", "john">> >>
    /\ r_result = "Alice"

C22_WitnessAlias ==
    /\ r_pc = "done"
    /\ r_token = "JOHNNY"
    /\ r_aliases = << <<"alice", "sarah">>, <<"Johnny", "john">> >>
    /\ r_result = "john"

\* the members lists of all groups, one after the other
RECURSIVE ConcatMembers(_)
ConcatMembers(gs) ==
    IF gs = <<>> THEN <<>>
    ELSE Head(gs).members \o ConcatMembers(Tail(gs))

\* max(ceil(n / 4), requested courts)
CourtsToUse == Max((Len(a_players) + 3) \div 4, a_courts)

\* ceil(n / courts_to_use) - 1
TargetGroupSize ==
    ((Len(a_players) + CourtsToUse - 1) \div CourtsToUse) - 1

\* the usernames of the first courts_to_use configured members that are
\* named in the request
DesignatedLeaders ==
    {a_creds[i].username : i \in
        {k \in CredentialedInRequest :
            Cardinality({m \in CredentialedInRequest : m <= k}) <= CourtsToUse}}

\* C23: in a returned allocation no group has more than
\* ceil(n / courts_to_use) - 1 members, every group but the last has
\* exactly that many, and the members lists one after the other are the
\* requested participants without the leaders, in the order of the request.
C23_FillOrderAndTargetSize ==
    Returned =>
        /\ \A g \in 1..Len(Groups) :
            /\ Len(Groups[g].members) <= TargetGroupSize
            /\ g < Len(Groups) => Len(Groups[g].members) = TargetGroupSize
        /\ ConcatMembers(Groups) =
               SelectSeq(a_players, LAMBDA p : p \notin DesignatedLeaders)

C23_Witness ==
    /\ Returned
    /\ a_players = <<"alice", "sarah", "bob", "john", "mike">>
    /\ a_courts = 2
    /\ Len(a_creds) = 2
    /\ TargetGroupSize = 2
    /\ Len(Groups[1].members) = 2
    /\ Len(Groups[2].members) = 1
    /\ ConcatMembers(Groups) = <<"alice", "bob", "mike">>

\* C24: in a returned allocation the members lists hold exactly the
\* requested participants that are not designated leaders: no designated
\* leader is a member of any group, and a participant with credentials
\* that leads no group is a member of some group.
C24_LeadersAreReserved ==
    Returned =>
        /\ Range(ConcatMembers(Groups)) = Range(a_players) \ DesignatedLeaders
        /\ \A g \in 1..Len(Groups) :
               Groups[g].leader.username \in DesignatedLeaders
        /\ \A i \in CredentialedInRequest :
               a_creds[i].username \notin DesignatedLeaders =>
                   \E g \in 1..Len(Groups) :
                       a_creds[i].username \in Range(Groups[g].members)

C24_Witness ==
    /\ Returned
    /\ Cardinality(CredentialedInRequest) = 3
    /\ Len(Groups) = 2
    /\ \E i \in CredentialedInRequest :
        /\ a_creds[i].username \notin DesignatedLeaders
        /\ a_creds[i].username \in Range(Groups[1].members)

\* C25 as stated: when the request names a participant more than once,
\* every participant still occurs exactly once among the leaders and
\* members of a returned allocation.
C25_DuplicatesBookedOnce ==
    (Returned /\ ~ IsDistinct(a_players)) =>
        \A p \in Range(a_players) : Occurrences(Flatten(Groups), p) = 1

\* C26 as stated: no group of an allocation that reached its task is
\* reported as failed because create_booking_data refused its members list.
C26_EveryGroupSubmittable ==
    TasksGathered =>
        \A g \in GroupIds :
            /\ t_failed_at[g] # "create_booking_data"
            /\ t_error[g] # "AssertionError"

\* the calls of authenticate that succeeded before the i-th call
AuthenticatedBefore(i) ==
    {j \in 1..(i - 1) :
        k_log[j].method = "authenticate" /\ k_log[j].outcome = "ok"}

\* the user of the last of them
SessionBefore(i) ==
    k_log[CHOOSE j \in AuthenticatedBefore(i) :
              \A m \in AuthenticatedBefore(i) : m <= j].user

C27_WitnessSession ==
    /\ Len(k_log) = 3
    /\ k_log[1].method = "authenticate"
    /\ k_log[1].user = "sarah"
    /\ k_log[1].outcome = "ok"
    /\ k_log[2].method = "get_member"
    /\ k_log[2].outcome = "ok"
    /\ k_log[3].method = "book_slot"
    /\ k_log[3].requested
    /\ k_log[3].user = "sarah"

\* C28 as stated, for the timeslots command: when handle has finished, the
\* client it opened has been closed, whether its calls succeeded or failed.
C28_SessionsAlwaysClosed ==
    g_pc = "done" => g_client.state \in {"none", "closed"}

\* the part of C28 about the book command: when handle has finished every
\* client it opened is closed, and the pre-fetch client is closed before
\* any group task starts
BookSessionsClosed ==
    /\ h_pc = "done" => \A o \in Owners : clients[o].state \in {"none", "closed"}
    /\ \A g \in TaskIds : t_pc[g] # "none" => clients[0].state = "closed"

====
